---------------------------- MODULE Spec2Model ----------------------------
(***************************************************************************)
(* A model of ogr2osm/osm_geometries.py: the process-wide id counter       *)
(* (OsmId), the bounding box (OsmBoundary), the three geometry kinds       *)
(* (OsmNode, OsmWay, OsmRelation) and their XML serialisation.             *)
(*                                                                         *)
(* Conventions.                                                            *)
(*  - A Python str is a sequence of pieces whose concatenation it is: a    *)
(*    number or a file is spelled character by character, a literal, a tag *)
(*    value or a role is one piece, and the empty str is <<>>.  Dict keys  *)
(*    and attribute names are atomic names.                                *)
(*  - A Python float coordinate is an integer number of thousandths        *)
(*    (Scale = 1000): 52.5 is 52500.  Comparison, min and max are those of *)
(*    the integers; '%.Nf' is computed digit by digit by FixedPoint.       *)
(*  - An object is its index in ents (construction order); == on           *)
(*    geometries is identity, as the classes define no __eq__.             *)
(*  - Python ints are unbounded, so the counter is an unbounded integer.   *)
(*  - An lxml element is a record [tag, attrs, children]; attrs is the     *)
(*    attribute dict as a sequence of <<key, value>> in insertion order.   *)
(***************************************************************************)
EXTENDS Integers, Sequences, FiniteSets, TLC

VARIABLES
    counter,    \* OsmId.element_id_counter
    incr,       \* OsmId.element_id_counter_incr
    ents,       \* every geometry constructed so far, in construction order
    is_valid,   \* OsmBoundary.is_valid
    minlon,     \* OsmBoundary.minlon
    maxlon,     \* OsmBoundary.maxlon
    minlat,     \* OsmBoundary.minlat
    maxlat,     \* OsmBoundary.maxlat
    xml,        \* the element the last to_xml call rendered, NoXml when none was returned
    role,       \* what the last get_member_role call returned, None otherwise
    last,       \* history: the last operation, its arguments and its outcome
    sinceSet,   \* history: the last set_id's start and the constructions since; valid until a load_id
    sinceReset, \* history: constructions since the last set_id or successful load_id
    envs        \* history: the envelopes given to add_envelope so far

vars == <<counter, incr, ents, is_valid, minlon, maxlon, minlat, maxlat,
          xml, role, last, sinceSet, sinceReset, envs>>

boxVars == <<is_valid, minlon, maxlon, minlat, maxlat, envs>>

\* Python's None where a str is expected (no str of the model is this one)
None == <<"NoneType">>

\* no element: the call returned nothing
NoXml == [tag |-> "None", attrs |-> <<>>, children |-> <<>>]

-----------------------------------------------------------------------------
(* Bounds of the model *)

MaxIds == 2          \* geometries constructed, in the id allocator's specification
MaxEnvelopes == 3    \* envelopes added to the boundary
MaxNodes == 1        \* nodes constructed, in the formatter's specification
MaxGeoms == 2        \* geometries constructed, in the relation's specification
MaxMembers == 2      \* members appended, over all relations

-----------------------------------------------------------------------------
(* Python str helpers *)

Digits == <<"0", "1", "2", "3", "4", "5", "6", "7", "8", "9">>

IsDigit(c) == \E i \in 1..10 : Digits[i] = c

DigitVal(c) == (CHOOSE i \in 1..10 : Digits[i] = c) - 1

\* str.isspace for the characters a counter file can hold here
IsSpace(c) == c \in {" ", "\n", "\t", "\r"}

RECURSIVE LStripSpace(_)
LStripSpace(s) ==
    IF s # <<>> /\ IsSpace(Head(s)) THEN LStripSpace(Tail(s)) ELSE s

RECURSIVE RStripSpace(_)
RStripSpace(s) ==
    IF s # <<>> /\ IsSpace(s[Len(s)])
    THEN RStripSpace(SubSeq(s, 1, Len(s) - 1)) ELSE s

\* '%d' % n and str(n) for an int
RECURSIVE NatStr(_)
NatStr(n) == IF n < 10 THEN <<Digits[n + 1]>>
             ELSE NatStr(n \div 10) \o <<Digits[(n % 10) + 1]>>

IntStr(n) == IF n < 0 THEN <<"-">> \o NatStr(-n) ELSE NatStr(n)

-----------------------------------------------------------------------------
(* OsmId *)

ReadLimit == 20

\* ff.readline(n): the characters up to and including the first newline, at
\* most n of them
ReadLine(f, n) ==
    LET nl == {i \in 1..Len(f) : f[i] = "\n"}
        end == IF nl = {} THEN Len(f) ELSE CHOOSE i \in nl : \A j \in nl : i <= j
    IN  SubSeq(f, 1, IF end < n THEN end ELSE n)

\* the literal int() accepts after stripping white space: an optional sign,
\* then digits, single underscores allowed between digits
IntBody(s) ==
    LET t == RStripSpace(LStripSpace(s))
    IN  IF t # <<>> /\ Head(t) \in {"+", "-"} THEN Tail(t) ELSE t

IntNegative(s) ==
    LET t == RStripSpace(LStripSpace(s))
    IN  t # <<>> /\ Head(t) = "-"

IntValid(s) ==
    LET d == IntBody(s)
    IN  /\ d # <<>>
        /\ IsDigit(d[1])
        /\ IsDigit(d[Len(d)])
        /\ \A i \in 1..Len(d) : IsDigit(d[i]) \/ d[i] = "_"
        /\ \A i \in 1..(Len(d) - 1) : ~(d[i] = "_" /\ d[i + 1] = "_")

RECURSIVE DigitsValue(_)
DigitsValue(d) ==
    IF d = <<>> THEN 0
    ELSE IF d[Len(d)] = "_" THEN DigitsValue(SubSeq(d, 1, Len(d) - 1))
    ELSE 10 * DigitsValue(SubSeq(d, 1, Len(d) - 1)) + DigitVal(d[Len(d)])

\* int(s) for a valid literal
IntOf(s) == IF IntNegative(s) THEN 0 - DigitsValue(IntBody(s))
            ELSE DigitsValue(IntBody(s))

\* The counter files of the model: NoFile is a path that does not exist.
NoFile == <<"ENOENT">>

CounterFiles ==
    { NoFile,
      <<>>,
      <<"4">>,
      <<"-", "7", "\n", "9">>,
      <<" ", "+", "4", "\n">>,
      <<"3", " ", "4">>,
      \* 21 characters: readline(20) cuts the last one off
      <<"0", "0", "0", "0", "0", "0", "0", "0", "0", "0",
        "0", "0", "0", "0", "0", "0", "0", "0", "0", "4", "3">> }

StartIds == {0, 5}

NoSet == [valid |-> FALSE, start |-> 0, n |-> 0]

\* OsmId.set_id(start_id, is_positive): the counter is assigned; the increment
\* is assigned only when is_positive is true (the if has no else branch)
SetId(start_id, is_positive) ==
    /\ counter' = start_id
    /\ incr' = IF is_positive THEN 1 ELSE incr
    /\ last' = [op |-> "set_id", arg |-> start_id, flag |-> is_positive,
                outcome |-> "ok"]
    /\ sinceSet' = [valid |-> TRUE, start |-> start_id, n |-> 0]
    /\ sinceReset' = 0
    /\ xml' = NoXml
    /\ role' = None
    /\ UNCHANGED <<ents, boxVars>>

\* a variant of load_id that also puts the increment back to its default
LoadIdResetsIncr(f) ==
    LET tok == ReadLine(f, ReadLimit)
    IN  /\ f # NoFile
        /\ IntValid(tok)
        /\ counter' = IntOf(tok)
        /\ incr' = -1
        /\ last' = [op |-> "load_id", arg |-> f, flag |-> FALSE, outcome |-> "ok"]
        /\ sinceSet' = NoSet
        /\ sinceReset' = 0
        /\ xml' = NoXml
        /\ role' = None
        /\ UNCHANGED <<ents, boxVars>>

\* OsmId.load_id(filename), the file holding f: open() raises for a missing
\* file and int() raises ValueError for a bad literal, both before the
\* assignment to the counter
LoadId(f) ==
    LET tok == ReadLine(f, ReadLimit)
    IN  /\ xml' = NoXml
        /\ role' = None
        /\ UNCHANGED <<incr, ents, boxVars>>
        /\ IF f = NoFile
           THEN /\ last' = [op |-> "load_id", arg |-> f, flag |-> FALSE,
                            outcome |-> "FileNotFoundError"]
                /\ UNCHANGED <<counter, sinceSet, sinceReset>>
           ELSE IF IntValid(tok)
           THEN /\ counter' = IntOf(tok)
                /\ last' = [op |-> "load_id", arg |-> f, flag |-> FALSE,
                            outcome |-> "ok"]
                /\ sinceSet' = NoSet
                /\ sinceReset' = 0
           ELSE /\ last' = [op |-> "load_id", arg |-> f, flag |-> FALSE,
                            outcome |-> "ValueError"]
                /\ UNCHANGED <<counter, sinceSet, sinceReset>>

-----------------------------------------------------------------------------
(* OsmGeometry and its subclasses *)

\* bool(value) for a tag value
Truthy(v) == v # <<>> /\ v # None

\* d.update({key: value}) on a dict kept as a sequence of <<key, value>>: an
\* existing key keeps its place, a new key goes last
DictUpdate(d, key, value) ==
    IF \E i \in 1..Len(d) : d[i][1] = key
    THEN [i \in 1..Len(d) |-> IF d[i][1] = key THEN <<key, value>> ELSE d[i]]
    ELSE Append(d, <<key, value>>)

\* OsmGeometry._append_non_empty_tags(tags) on the empty self.tags: tags is
\* the items() of the argument, in order
RECURSIVE AppendNonEmptyTags(_, _)
AppendNonEmptyTags(stored, tags) ==
    IF tags = <<>> THEN stored
    ELSE AppendNonEmptyTags(
             IF Truthy(Head(tags)[2])
             THEN DictUpdate(stored, Head(tags)[1], <<Head(tags)[2]>>)
             ELSE stored,
             Tail(tags))

\* a variant of line 85 that leaves the class counter as it was (the sum
\* goes to an attribute of the instance)
CounterNotWrittenBack == counter

\* OsmGeometry.__get_new_id, line 85: the class counter after +=
CounterAfterGetNewId == counter + incr

\* a variant of line 86 that returns the counter read before the +=
GetNewIdReturnsOld == counter

\* OsmGeometry.__get_new_id, line 86: the id returned
GetNewId == CounterAfterGetNewId

Bump(h) == IF h.valid THEN [h EXCEPT !.n = @ + 1] ELSE h

\* the constructor of a geometry class: OsmGeometry.__init__ draws the id,
\* then the subclass sets its own fields and stores the non-empty tags.
\* kind is the concrete class; "other" is a subclass of one of the three.
New(kind, x, y, tags) ==
    /\ counter' = CounterAfterGetNewId
    /\ ents' = Append(ents, [kind |-> kind, id |-> GetNewId,
                             tags |-> AppendNonEmptyTags(<<>>, tags),
                             x |-> x, y |-> y, members |-> <<>>])
    /\ last' = [op |-> "new", arg |-> Len(ents) + 1, flag |-> FALSE,
                outcome |-> "ok"]
    /\ sinceSet' = Bump(sinceSet)
    /\ sinceReset' = sinceReset + 1
    /\ xml' = NoXml
    /\ role' = None
    /\ UNCHANGED <<incr, boxVars>>

\* OsmNode(x, y, tags)
NewNode(x, y, tags) == New("OsmNode", x, y, tags)

\* OsmWay(tags)
NewWay(tags) == New("OsmWay", 0, 0, tags)

\* OsmRelation(tags)
NewRelation(tags) == New("OsmRelation", 0, 0, tags)

\* an instance of a subclass of a geometry class (type(member) is none of the
\* three classes)
NewOther(tags) == New("other", 0, 0, tags)

-----------------------------------------------------------------------------
(* '%.Nf' and str.strip('0') *)

\* a coordinate is a number of thousandths
FracDigits == 3

RECURSIVE Pow10(_)
Pow10(n) == IF n = 0 THEN 1 ELSE 10 * Pow10(n - 1)

Abs(v) == IF v < 0 THEN 0 - v ELSE v

\* |v| in units of 10^-digits, as '%.Nf' rounds it: exactly for digits >= 3,
\* to nearest otherwise.  A tie goes to the even neighbour, which is what
\* the C library does for a float that is exactly the tie (0.25, 0.75, ...);
\* the coordinates of the model hold no other ties.
Rounded(v, digits) ==
    IF digits >= FracDigits
    THEN Abs(v) * Pow10(digits - FracDigits)
    ELSE LET unit == Pow10(FracDigits - digits)
             q == Abs(v) \div unit
             r == Abs(v) % unit
         IN  IF 2 * r > unit \/ (2 * r = unit /\ q % 2 = 1) THEN q + 1 ELSE q

\* n as exactly `width` decimal digits, zero-padded on the left
RECURSIVE Padded(_, _)
Padded(n, width) ==
    IF width = 0 THEN <<>>
    ELSE Padded(n \div 10, width - 1) \o <<Digits[(n % 10) + 1]>>

\* ('%%.%df' % digits) % v: sign, integer part, point, `digits` digits
FixedPoint(v, digits) ==
    LET n == Rounded(v, digits)
    IN  (IF v < 0 THEN <<"-">> ELSE <<>>)
        \o NatStr(n \div Pow10(digits))
        \o (IF digits > 0 THEN <<".">> ELSE <<>>)
        \o Padded(n % Pow10(digits), digits)

RECURSIVE LStrip0(_)
LStrip0(s) == IF s # <<>> /\ Head(s) = "0" THEN LStrip0(Tail(s)) ELSE s

RECURSIVE RStrip0(_)
RStrip0(s) == IF s # <<>> /\ s[Len(s)] = "0"
              THEN RStrip0(SubSeq(s, 1, Len(s) - 1)) ELSE s

\* a variant with rstrip: only the '0' characters at the end go
StripTrailing0(s) == RStrip0(s)

\* s.strip('0'): the '0' characters at both ends go
Strip0(s) == RStrip0(LStrip0(s))

\* (('%%.%df' % significant_digits) % v).strip('0'), the expression of
\* OsmBoundary.to_xml and OsmNode.to_xml
FormatCoord(v, digits) == Strip0(FixedPoint(v, digits))

-----------------------------------------------------------------------------
(* lxml *)

\* etree.Element(tag, attrs) raises TypeError for an attribute value that is
\* not a str
ElementOk(attrs) == \A i \in 1..Len(attrs) : attrs[i][2] # None

Element(tag, attrs, children) ==
    [tag |-> tag, attrs |-> attrs, children |-> children]

\* xmlattrs.update(attributes)
RECURSIVE DictUpdateAll(_, _)
DictUpdateAll(d, items) ==
    IF items = <<>> THEN d
    ELSE DictUpdateAll(DictUpdate(d, Head(items)[1], Head(items)[2]), Tail(items))

\* ','.join(value_list)
RECURSIVE Join(_)
Join(value_list) ==
    IF value_list = <<>> THEN <<>>
    ELSE IF Len(value_list) = 1 THEN value_list[1]
    ELSE value_list[1] \o <<",">> \o Join(Tail(value_list))

\* the loop over self.tags.items(): one tag element per stored key
TagElements(tags) ==
    [i \in 1..Len(tags) |->
        Element("tag", << <<"k", <<tags[i][1]>> >>, <<"v", Join(tags[i][2])>> >>, <<>>)]

-----------------------------------------------------------------------------
(* OsmBoundary *)

Min(a, b) == IF a < b THEN a ELSE b
Max(a, b) == IF a > b THEN a ELSE b

\* a variant of add_envelope without the is_valid branch: the envelope given
\* is adopted every time
AddEnvelopeAdopts(minx, maxx, miny, maxy) ==
    /\ is_valid' = TRUE
    /\ minlon' = minx
    /\ maxlon' = maxx
    /\ minlat' = miny
    /\ maxlat' = maxy
    /\ envs' = envs \cup {<<minx, maxx, miny, maxy>>}
    /\ last' = [op |-> "add_envelope", arg |-> <<minx, maxx, miny, maxy>>,
                flag |-> FALSE, outcome |-> "ok"]
    /\ xml' = NoXml
    /\ role' = None
    /\ UNCHANGED <<counter, incr, ents, sinceSet, sinceReset>>

\* OsmBoundary.add_envelope(minx, maxx, miny, maxy)
AddEnvelope(minx, maxx, miny, maxy) ==
    /\ IF is_valid
       THEN /\ minlon' = Min(minlon, minx)
            /\ maxlon' = Max(maxlon, maxx)
            /\ minlat' = Min(minlat, miny)
            /\ maxlat' = Max(maxlat, maxy)
            /\ UNCHANGED is_valid
       ELSE /\ is_valid' = TRUE
            /\ minlon' = minx
            /\ maxlon' = maxx
            /\ minlat' = miny
            /\ maxlat' = maxy
    /\ envs' = envs \cup {<<minx, maxx, miny, maxy>>}
    /\ last' = [op |-> "add_envelope", arg |-> <<minx, maxx, miny, maxy>>,
                flag |-> FALSE, outcome |-> "ok"]
    /\ xml' = NoXml
    /\ role' = None
    /\ UNCHANGED <<counter, incr, ents, sinceSet, sinceReset>>

\* OsmBoundary.to_xml(significant_digits)
BoundsToXml(digits) ==
    /\ xml' = Element("bounds",
                      << <<"minlon", FormatCoord(minlon, digits)>>,
                         <<"minlat", FormatCoord(minlat, digits)>>,
                         <<"maxlon", FormatCoord(maxlon, digits)>>,
                         <<"maxlat", FormatCoord(maxlat, digits)>> >>, <<>>)
    /\ last' = [op |-> "bounds.to_xml", arg |-> digits, flag |-> FALSE,
                outcome |-> "ok"]
    /\ role' = None
    /\ UNCHANGED <<counter, incr, ents, sinceSet, sinceReset, boxVars>>

-----------------------------------------------------------------------------
(* to_xml of the geometries, get_member_role *)

\* OsmNode.to_xml(attributes, significant_digits) of ents[i]
NodeToXml(i, attributes, digits) ==
    LET e == ents[i]
        xmlattrs == DictUpdateAll(
                        << <<"visible", <<"true">> >>,
                           <<"id", IntStr(e.id)>>,
                           <<"lat", FormatCoord(e.y, digits)>>,
                           <<"lon", FormatCoord(e.x, digits)>> >>,
                        attributes)
    IN  /\ e.kind = "OsmNode"
        /\ xml' = Element("node", xmlattrs, TagElements(e.tags))
        /\ last' = [op |-> "node.to_xml", arg |-> <<i, attributes, digits>>,
                    flag |-> FALSE, outcome |-> "ok"]
        /\ role' = None
        /\ UNCHANGED <<counter, incr, ents, sinceSet, sinceReset, boxVars>>

\* OsmRelation.members.append((member, role)), done by the builder: members
\* is a public list and the class has no method for it
AddMember(i, m, r) ==
    /\ ents[i].kind = "OsmRelation"
    /\ ents' = [ents EXCEPT ![i].members = Append(@, <<m, r>>)]
    /\ last' = [op |-> "members.append", arg |-> <<i, m, r>>, flag |-> FALSE,
                outcome |-> "ok"]
    /\ xml' = NoXml
    /\ role' = None
    /\ UNCHANGED <<counter, incr, sinceSet, sinceReset, boxVars>>

\* [ m[1] for m in members if m[0] == member ]
RolesOf(members, member) ==
    LET matching == SelectSeq(members, LAMBDA m : m[1] = member)
    IN  [j \in 1..Len(matching) |-> matching[j][2]]

\* a variant of get_member_role that returns the first non-empty role
FirstTruthyRole(members, member) ==
    LET truthy == SelectSeq(RolesOf(members, member), Truthy)
    IN  IF truthy # <<>> THEN truthy[1] ELSE <<>>

\* the value of OsmRelation.get_member_role(member), lines 169-171
MemberRole(members, member) ==
    LET member_roles == RolesOf(members, member)
        any == \E j \in 1..Len(member_roles) : Truthy(member_roles[j])
    IN  IF any THEN member_roles[1] ELSE <<>>

\* OsmRelation.get_member_role(member) of ents[i]
GetMemberRole(i, member) ==
    /\ ents[i].kind = "OsmRelation"
    /\ role' = MemberRole(ents[i].members, member)
    /\ last' = [op |-> "get_member_role", arg |-> <<i, member>>, flag |-> FALSE,
                outcome |-> "ok"]
    /\ xml' = NoXml
    /\ UNCHANGED <<counter, incr, ents, sinceSet, sinceReset, boxVars>>

\* a variant of member_type that is rendered with str(): "None" for None
MemberTypeStr(kind) ==
    IF kind = "OsmNode" THEN <<"node">>
    ELSE IF kind = "OsmWay" THEN <<"way">>
    ELSE IF kind = "OsmRelation" THEN <<"relation">>
    ELSE <<"None">>

\* member_type after lines 181-187: None unless type(member) is exactly one
\* of the three classes
MemberType(kind) ==
    IF kind = "OsmNode" THEN <<"node">>
    ELSE IF kind = "OsmWay" THEN <<"way">>
    ELSE IF kind = "OsmRelation" THEN <<"relation">>
    ELSE None

\* the attribute dict of the member element, lines 188-189
MemberAttrs(members, j) ==
    << <<"type", MemberType(ents[members[j][1]].kind)>>,
       <<"ref", IntStr(ents[members[j][1]].id)>>,
       <<"role", members[j][2]>> >>

\* a variant of to_xml that appends the type=multipolygon tag after the
\* stored tags
SyntheticTagLast(members, tags) ==
    [j \in 1..Len(members) |-> Element("member", MemberAttrs(members, j), <<>>)]
    \o TagElements(tags)
    \o <<Element("tag", << <<"k", <<"type">> >>, <<"v", <<"multipolygon">> >> >>, <<>>)>>

\* the children appended by OsmRelation.to_xml, lines 180-196
RelationChildren(members, tags) ==
    [j \in 1..Len(members) |-> Element("member", MemberAttrs(members, j), <<>>)]
    \o <<Element("tag", << <<"k", <<"type">> >>, <<"v", <<"multipolygon">> >> >>, <<>>)>>
    \o TagElements(tags)

\* OsmRelation.to_xml(attributes, significant_digits) of ents[i]: the first
\* member element whose attributes lxml refuses ends the call with TypeError
RelationToXml(i, attributes, digits) ==
    LET e == ents[i]
        xmlattrs == DictUpdateAll(<< <<"visible", <<"true">> >>,
                                     <<"id", IntStr(e.id)>> >>, attributes)
        raised == \E j \in 1..Len(e.members) : ~ElementOk(MemberAttrs(e.members, j))
    IN  /\ e.kind = "OsmRelation"
        /\ IF raised
           THEN /\ xml' = NoXml
                /\ last' = [op |-> "relation.to_xml", arg |-> <<i, attributes, digits>>,
                            flag |-> FALSE, outcome |-> "TypeError"]
           ELSE /\ xml' = Element("relation", xmlattrs,
                                  RelationChildren(e.members, e.tags))
                /\ last' = [op |-> "relation.to_xml", arg |-> <<i, attributes, digits>>,
                            flag |-> FALSE, outcome |-> "ok"]
        /\ role' = None
        /\ UNCHANGED <<counter, incr, ents, sinceSet, sinceReset, boxVars>>

-----------------------------------------------------------------------------
(* The inputs of the model *)

NoTags == <<>>

\* a tags argument with an empty and a None value among the items
SomeTags == << <<"type", <<"boundary">> >>, <<"note", <<>> >>,
               <<"ref", None>>, <<"name", <<"Main St">> >> >>

Roles == {<<"outer">>, <<>>}

NoAttributes == <<>>

\* extra attributes, one of them a key to_xml computes itself
SomeAttributes == << <<"timestamp", <<"2020-01-01">> >>, <<"lat", <<"x">> >> >>

\* 0.0, 0.5, 52.5, -0.25, 10.0 and 9.96
FmtCoords == {0, 500, 52500, -250, 10000, 9960}

FmtDigits == {1, 6}

FmtEnvelopes == { <<0, 500, -250, 52500>>,
                  <<10000, 10000, 9960, 9960>>,
                  <<-250, 0, 0, 0>> }

BoxLons == {0, 1000, 2000, 5000}

BoxLats == {3000, 4000}

TotalMembers ==
    LET RECURSIVE Sum(_)
        Sum(k) == IF k = 0 THEN 0 ELSE Len(ents[k].members) + Sum(k - 1)
    IN  Sum(Len(ents))

-----------------------------------------------------------------------------
(* The specifications *)

Init ==
    /\ counter = 0
    /\ incr = -1
    /\ ents = <<>>
    /\ is_valid = FALSE
    /\ minlon = 0
    /\ maxlon = 0
    /\ minlat = 0
    /\ maxlat = 0
    /\ xml = NoXml
    /\ role = None
    /\ last = [op |-> "init", arg |-> 0, flag |-> FALSE, outcome |-> "ok"]
    /\ sinceSet = NoSet
    /\ sinceReset = 0
    /\ envs = {}

\* the id allocator: set_id, load_id and the constructors
NextId ==
    \/ \E start \in StartIds, p \in BOOLEAN : SetId(start, p)
    \/ \E f \in CounterFiles : LoadId(f)
    \/ Len(ents) < MaxIds /\ NewNode(0, 0, SomeTags)
    \/ Len(ents) < MaxIds /\ NewWay(NoTags)
    \/ Len(ents) < MaxIds /\ NewRelation(NoTags)

SpecId == Init /\ [][NextId]_vars

\* the boundary
NextBox ==
    \/ \E minx, maxx \in BoxLons, miny, maxy \in BoxLats :
          /\ minx <= maxx
          /\ miny <= maxy
          /\ Cardinality(envs) < MaxEnvelopes
          /\ AddEnvelope(minx, maxx, miny, maxy)
    \* the caller asks for the bounds of a valid boundary only
    \/ is_valid /\ BoundsToXml(6)

SpecBox == Init /\ [][NextBox]_vars

\* the coordinate formatter, in OsmNode.to_xml and OsmBoundary.to_xml
NextFmt ==
    \/ \E x, y \in FmtCoords :
          Len(ents) < MaxNodes /\ NewNode(x, y, SomeTags)
    \/ \E i \in 1..Len(ents), a \in {NoAttributes, SomeAttributes}, d \in FmtDigits :
          NodeToXml(i, a, d)
    \/ \E e \in FmtEnvelopes :
          Cardinality(envs) < MaxEnvelopes /\ AddEnvelope(e[1], e[2], e[3], e[4])
    \/ \E d \in FmtDigits : is_valid /\ BoundsToXml(d)

SpecFmt == Init /\ [][NextFmt]_vars

\* relations: members, get_member_role and to_xml
NextRel ==
    \/ Len(ents) < MaxGeoms /\ NewNode(0, 0, NoTags)
    \/ Len(ents) < MaxGeoms /\ NewWay(NoTags)
    \/ \E t \in {NoTags, SomeTags} : Len(ents) < MaxGeoms /\ NewRelation(t)
    \/ Len(ents) < MaxGeoms /\ NewOther(NoTags)
    \/ \E i, m \in 1..Len(ents), r \in Roles :
          TotalMembers < MaxMembers /\ AddMember(i, m, r)
    \/ \E i, m \in 1..Len(ents) : GetMemberRole(i, m)
    \/ \E i \in 1..Len(ents) : RelationToXml(i, NoAttributes, 6)

SpecRel == Init /\ [][NextRel]_vars

\* the whole module: every operation, in any order
Next == NextId \/ NextBox \/ NextFmt \/ NextRel

Spec == Init /\ [][Next]_vars

-----------------------------------------------------------------------------
(* The claims *)

Kinds3 == {"OsmNode", "OsmWay", "OsmRelation"}

\* the last n geometries constructed, oldest first
LastEnts(n) == SubSeq(ents, Len(ents) - n + 1, Len(ents))

\* C1: after set_id(S, p) with no set_id or load_id since, the k-th geometry
\* constructed since (of whatever kinds) has id S + k when the increment is
\* +1 and S - k when it is -1, and the counter has moved by exactly one
\* increment per construction.
C1_KthIdAfterSetId ==
    sinceSet.valid =>
        /\ sinceSet.n <= Len(ents)
        /\ \A k \in 1..sinceSet.n :
              /\ incr = 1 => LastEnts(sinceSet.n)[k].id = sinceSet.start + k
              /\ incr = -1 => LastEnts(sinceSet.n)[k].id = sinceSet.start - k
        /\ counter = sinceSet.start + sinceSet.n * incr

C1_Witness ==
    /\ sinceSet.valid
    /\ sinceSet.n = 2
    /\ sinceSet.start = 5
    /\ incr = 1
    /\ ents[1].kind # ents[2].kind
    /\ ents[2].id = 7

\* C2 as stated: in every reachable state no two constructed geometries
\* have the same id.
C2_AllIdsDistinct ==
    \A i, j \in 1..Len(ents) : i # j => ents[i].id # ents[j].id

\* C2 as amended: the geometries constructed since the last set_id or
\* successful load_id (since the start when there was none) have pairwise
\* different ids.
C2_IdsDistinctSinceReset ==
    /\ sinceReset <= Len(ents)
    /\ \A i, j \in 1..sinceReset :
          i # j => LastEnts(sinceReset)[i].id # LastEnts(sinceReset)[j].id

C2_Witness ==
    /\ sinceReset = 2
    /\ last.op = "new"
    /\ ents[1].kind # ents[2].kind
    /\ ents[1].id # ents[2].id

\* C3: right after set_id(value, positive) the counter is value and the
\* increment is +1 if positive and -1 otherwise.
C3_SetIdSetsBoth ==
    last.op = "set_id" =>
        /\ counter = last.arg
        /\ incr = IF last.flag THEN 1 ELSE -1

\* C4: load_id of a file whose first line (20 characters at most) is a valid
\* integer sets the counter to it and leaves the increment and the
\* geometries alone; load_id of any other file ends in an error and leaves
\* the counter and the increment alone.
C4_LoadId ==
    [][last'.op = "load_id" =>
          IF last'.arg # NoFile /\ IntValid(ReadLine(last'.arg, 20))
          THEN /\ last'.outcome = "ok"
               /\ counter' = IntOf(ReadLine(last'.arg, 20))
               /\ incr' = incr
               /\ ents' = ents
          ELSE /\ last'.outcome # "ok"
               /\ counter' = counter
               /\ incr' = incr]_vars

C4_Witness ==
    /\ last.op = "load_id"
    /\ Len(last.arg) = 21
    /\ last.outcome = "ok"
    /\ counter = 4
    /\ incr = 1
    /\ Len(ents) = 2

C4_WitnessError ==
    /\ last.op = "load_id"
    /\ last.arg = <<"3", " ", "4">>
    /\ last.outcome = "ValueError"
    /\ counter = 6
    /\ incr = 1

SetMin(S) == CHOOSE a \in S : \A b \in S : a <= b
SetMax(S) == CHOOSE a \in S : \A b \in S : a >= b

\* C5: once an envelope has been added the boundary is valid and its bounds
\* are the least of the mins and the greatest of the maxes given; valid
\* never goes back to false and no step shrinks a valid boundary.
C5_Boundary ==
    /\ [](envs # {} =>
            /\ is_valid
            /\ minlon = SetMin({e[1] : e \in envs})
            /\ maxlon = SetMax({e[2] : e \in envs})
            /\ minlat = SetMin({e[3] : e \in envs})
            /\ maxlat = SetMax({e[4] : e \in envs}))
    /\ [][is_valid =>
            /\ is_valid'
            /\ minlon' <= minlon
            /\ maxlon' >= maxlon
            /\ minlat' <= minlat
            /\ maxlat' >= maxlat]_vars

C5_Witness ==
    /\ envs = {<<1000, 2000, 3000, 4000>>, <<0, 5000, 3000, 3000>>}
    /\ last.arg = <<0, 5000, 3000, 3000>>
    /\ is_valid
    /\ <<minlon, maxlon, minlat, maxlat>> = <<0, 5000, 3000, 4000>>

\* C6: get_member_role(e) returns the role of the first pair of the member
\* list whose geometry is e, and the empty string when there is none.
C6_FirstMatchWins ==
    last.op = "get_member_role" =>
        LET members == ents[last.arg[1]].members
            hits == {j \in 1..Len(members) : members[j][1] = last.arg[2]}
        IN  role = IF hits = {} THEN <<>> ELSE members[SetMin(hits)][2]

C6_Witness ==
    /\ last.op = "get_member_role"
    /\ LET members == ents[last.arg[1]].members
       IN  /\ Len(members) = 2
           /\ members[1] = <<last.arg[2], <<>> >>
           /\ members[2] = <<last.arg[2], <<"outer">> >>
    /\ role = <<>>

\* the formatted value of attribute `name` of the element, None when absent
Attr(el, name) ==
    IF \E i \in 1..Len(el.attrs) : el.attrs[i][1] = name
    THEN el.attrs[CHOOSE i \in 1..Len(el.attrs) : el.attrs[i][1] = name][2]
    ELSE None

HasKey(items, name) == \E i \in 1..Len(items) : items[i][1] = name

\* the coordinates to_xml formatted in the last call, each with the
\* attribute that holds it and the precision: <<value, text, digits>>
Formatted ==
    IF last.op = "bounds.to_xml"
    THEN { <<minlon, Attr(xml, "minlon"), last.arg>>,
           <<minlat, Attr(xml, "minlat"), last.arg>>,
           <<maxlon, Attr(xml, "maxlon"), last.arg>>,
           <<maxlat, Attr(xml, "maxlat"), last.arg>> }
    ELSE IF last.op = "node.to_xml"
    THEN { <<ents[last.arg[1]].x, Attr(xml, "lon"), last.arg[3]>> }
         \cup (IF HasKey(last.arg[2], "lat") THEN {}
               ELSE { <<ents[last.arg[1]].y, Attr(xml, "lat"), last.arg[3]>> })
    ELSE {}

\* C7: the formatter removes trailing '0' characters only: a formatted
\* coordinate is its fixed-point rendering less its longest suffix of '0'.
C7_OnlyTrailingZerosGo ==
    \A f \in Formatted : f[2] = RStrip0(FixedPoint(f[1], f[3]))

\* C8 as stated: at precision 6, zero is formatted as the empty string and
\* 52.5 as "52.5", in the lat/lon of a node and in the bounds.
C8_ZeroIsEmpty ==
    \A f \in Formatted :
        /\ (f[1] = 0 /\ f[3] = 6) => f[2] = <<>>
        /\ (f[1] = 52500 /\ f[3] = 6) => f[2] = <<"5", "2", ".", "5">>

\* C8 as amended: at precision 6, zero is formatted as "." (the zeros on
\* both sides of the point go, the point stays) and 52.5 as "52.5", in the
\* lat/lon of a node that the extra attributes do not override and in the
\* bounds.
C8_ZeroIsPoint ==
    \A f \in Formatted :
        /\ (f[1] = 0 /\ f[3] = 6) => f[2] = <<".">>
        /\ (f[1] = 52500 /\ f[3] = 6) => f[2] = <<"5", "2", ".", "5">>

C8_Witness ==
    /\ last.op = "node.to_xml"
    /\ last.arg[3] = 6
    /\ last.arg[2] = NoAttributes
    /\ ents[last.arg[1]].y = 0
    /\ ents[last.arg[1]].x = 52500
    /\ Attr(xml, "lat") = <<".">>
    /\ Attr(xml, "lon") = <<"5", "2", ".", "5">>

C8_WitnessBounds ==
    /\ last.op = "bounds.to_xml"
    /\ last.arg = 6
    /\ is_valid
    /\ minlon = 0
    /\ maxlat = 52500
    /\ Attr(xml, "minlon") = <<".">>
    /\ Attr(xml, "maxlat") = <<"5", "2", ".", "5">>

KindName(kind) ==
    CASE kind = "OsmNode" -> <<"node">>
      [] kind = "OsmWay" -> <<"way">>
      [] kind = "OsmRelation" -> <<"relation">>
      [] OTHER -> <<"?">>

\* C9: a relation whose members are nodes, ways and relations serialises to
\* one member child per pair, in order, with the member's type, id and role;
\* then one tag child type=multipolygon; then one tag child per stored tag
\* key, in insertion order.
C9_RelationChildren ==
    (last.op = "relation.to_xml" /\ last.outcome = "ok") =>
        LET e == ents[last.arg[1]]
            nm == Len(e.members)
            ch == xml.children
        IN  /\ xml.tag = "relation"
            /\ Len(ch) = nm + 1 + Len(e.tags)
            /\ \A j \in 1..nm :
                  /\ ch[j].tag = "member"
                  /\ ch[j].attrs = << <<"type", KindName(ents[e.members[j][1]].kind)>>,
                                      <<"ref", IntStr(ents[e.members[j][1]].id)>>,
                                      <<"role", e.members[j][2]>> >>
            /\ ch[nm + 1].tag = "tag"
            /\ ch[nm + 1].attrs = << <<"k", <<"type">> >>, <<"v", <<"multipolygon">> >> >>
            /\ \A j \in 1..Len(e.tags) :
                  /\ ch[nm + 1 + j].tag = "tag"
                  /\ ch[nm + 1 + j].attrs = << <<"k", <<e.tags[j][1]>> >>,
                                               <<"v", e.tags[j][2][1]>> >>

C9_Witness ==
    /\ last.op = "relation.to_xml"
    /\ last.outcome = "ok"
    /\ LET e == ents[last.arg[1]]
       IN  /\ Len(e.members) = 2
           /\ ents[e.members[1][1]].kind = "OsmWay"
           /\ ents[e.members[2][1]].kind = "OsmRelation"
           /\ e.members[1][2] = <<"outer">>
           /\ [j \in 1..Len(e.tags) |-> e.tags[j][1]] = <<"type", "name">>
    /\ Len(xml.children) = 5
    /\ Attr(xml.children[1], "type") = <<"way">>
    /\ Attr(xml.children[3], "v") = <<"multipolygon">>
    /\ Attr(xml.children[4], "v") = <<"boundary">>

\* C10: to_xml of a relation with a member that is no node, way or relation
\* ends in an error and returns nothing; no element returned has a member
\* child whose type is not node, way or relation.
C10_UnknownMemberKind ==
    last.op = "relation.to_xml" =>
        LET e == ents[last.arg[1]]
        IN  /\ (\E j \in 1..Len(e.members) : ents[e.members[j][1]].kind \notin Kinds3)
               => (last.outcome # "ok" /\ xml = NoXml)
            /\ \A j \in 1..Len(xml.children) :
                  xml.children[j].tag = "member" =>
                      Attr(xml.children[j], "type") \in {<<"node">>, <<"way">>, <<"relation">>}

C10_Witness ==
    /\ last.op = "relation.to_xml"
    /\ last.outcome = "TypeError"
    /\ xml = NoXml
    /\ LET e == ents[last.arg[1]]
       IN  /\ Len(e.members) = 2
           /\ ents[e.members[1][1]].kind = "OsmRelation"
           /\ ents[e.members[2][1]].kind = "other"

=============================================================================
